---- MODULE Spec2Model ----
(***************************************************************************)
(* Model of mathics/builtin/randomnumbers.py: the $RandomState codec, the  *)
(* RandomEnv session around numpy.random, SeedRandom, $RandomState and the *)
(* sampling builtins RandomInteger, RandomReal, RandomComplex,             *)
(* RandomChoice and RandomSample.                                          *)
(*                                                                         *)
(* numpy's Mersenne Twister is scaled down: a key block of NWords words of *)
(* WordMod values each, KeyMod key blocks, and a native seed range of      *)
(* 0 .. SeedLimit-1 standing for numpy's 0 .. 2**32-1.  The md5 digest of  *)
(* a string seed is scaled to 16 bits (its leading four hex digits).       *)
(***************************************************************************)
EXTENDS Integers, Sequences, FiniteSets, TLC

VARIABLES gen, config, pc, result, hist, cur, ref

vars == <<gen, config, pc, result, hist, cur, ref>>

(***************************** bounds **************************************)
\* largest dimension of a shape specification
MaxDim == 2
\* longest shape specification
MaxRank == 2
\* longest recorded run of sampling calls after a SeedRandom
MaxRun == 2

(*********************** the scaled generator ******************************)
\* numpy.random.seed accepts 0 .. 2**32-1; here 0 .. SeedLimit-1
SeedLimit == 16
\* number of distinct key blocks
KeyMod == 16
\* words per key block (624 in MT19937)
NWords == 4
\* values of one output word (2**32 in MT19937)
WordMod == 8
\* get_config_value('$RandomState') when nothing was persisted: None
NoState == -1
\* first byte of pickle.dumps(tuple): the MARK opcode "("
PickleMark == 40

\* init_genrand: the state right after seeding with s
rk_seed(s) == [key |-> s % KeyMod, pos |-> NWords]

\* genrand reload: the next key block
Twist(k) == (5 * k + 3) % KeyMod

\* tempering: word i of key block k
Word(k, i) == (7 * k + 5 * i + (k \div 4) + 1) % WordMod

\* rk_random: one word and the advanced state
rk_random(g) ==
  LET k == IF g.pos = NWords THEN Twist(g.key) ELSE g.key
      i == IF g.pos = NWords THEN 0 ELSE g.pos
  IN  [g |-> [key |-> k, pos |-> i + 1], w |-> Word(k, i)]

\* the states numpy.random can be in
GenStates == [key : 0 .. KeyMod - 1, pos : 1 .. NWords]

\* n successive words: [g |-> state afterwards, ws |-> the words]
DrawWords[g \in GenStates, n \in Nat] ==
  IF n = 0 THEN [g |-> g, ws |-> <<>>]
  ELSE IF n = 1 THEN [g |-> rk_random(g).g, ws |-> <<rk_random(g).w>>]
  ELSE LET a == DrawWords[g, n \div 2]
           b == DrawWords[a.g, n - (n \div 2)]
       IN  [g |-> b.g, ws |-> a.ws \o b.ws]

\* numpy.random.seed() without argument: a seed read from the OS
EntropySeeds == {5, 11}

(***************************** the codec ***********************************)
HexChars == <<"0", "1", "2", "3", "4", "5", "6", "7",
              "8", "9", "a", "b", "c", "d", "e", "f">>

\* value of a hex digit character, -1 for any other character
HexVal(c) ==
  IF \E i \in 1 .. 16 : HexChars[i] = c
  THEN (CHOOSE i \in 1 .. 16 : HexChars[i] = c) - 1
  ELSE -1

\* pickle.dumps of the generator state: a byte string
pickle_dumps(g) == <<PickleMark, g.key, g.pos>>

\* pickle.loads: the state, or a failure on anything pickle.dumps never wrote
pickle_loads(bs) ==
  IF /\ Len(bs) = 3
     /\ bs[1] = PickleMark
     /\ bs[2] \in 0 .. KeyMod - 1
     /\ bs[3] \in 1 .. NWords
  THEN [ok |-> TRUE, g |-> [key |-> bs[2], pos |-> bs[3]]]
  ELSE [ok |-> FALSE, g |-> [key |-> 0, pos |-> 1]]

RECURSIVE b2a_hex(_)
\* binascii.b2a_hex: two hex digits per byte
b2a_hex(bs) ==
  IF bs = <<>> THEN <<>>
  ELSE <<HexChars[(bs[1] \div 16) + 1], HexChars[(bs[1] % 16) + 1]>>
       \o b2a_hex(Tail(bs))

RECURSIVE IntOfHex(_, _)
\* int(s, 16), accumulating from the left
IntOfHex(s, acc) ==
  IF s = <<>> THEN acc ELSE IntOfHex(Tail(s), 16 * acc + HexVal(s[1]))

RECURSIVE HexDigits(_)
\* the hex digits of n > 0, most significant first, no leading zero
HexDigits(n) ==
  IF n = 0 THEN <<>> ELSE HexDigits(n \div 16) \o <<HexChars[(n % 16) + 1]>>

\* hex(n) of a Python 2 long: "0x", the digits, a trailing "L"
hex(n) == <<"0", "x">> \o (IF n = 0 THEN <<"0">> ELSE HexDigits(n)) \o <<"L">>

RECURSIVE rstrip(_, _)
\* s.rstrip(c)
\* a decoder that leaves the trailing long-integer marker in place
rstrip_kept(s, c) == s

rstrip(s, c) ==
  IF s # <<>> /\ s[Len(s)] = c THEN rstrip(SubSeq(s, 1, Len(s) - 1), c) ELSE s

RECURSIVE HexPairs(_)
HexPairs(s) ==
  IF s = <<>> THEN <<>>
  ELSE <<16 * HexVal(s[1]) + HexVal(s[2])>> \o HexPairs(SubSeq(s, 3, Len(s)))

\* binascii.a2b_hex: fails on an odd length or a non-hex character
a2b_hex(s) ==
  IF Len(s) % 2 = 1 \/ \E i \in 1 .. Len(s) : HexVal(s[i]) = -1
  THEN [ok |-> FALSE, bs |-> <<>>]
  ELSE [ok |-> TRUE, bs |-> HexPairs(s)]

\* get_random_state(): the integer encoding of numpy's state g
get_random_state(g) == IntOfHex(b2a_hex(pickle_dumps(g)), 0)

\* hex(state)[2:]
DropPrefix(s) == SubSeq(s, 3, Len(s))

\* set_random_state(state) for state # None: the state installed, or a raise
decode_state(n) ==
  LET s == rstrip(DropPrefix(hex(n)), "L")
      b == a2b_hex(s)
  IN  IF ~b.ok THEN [ok |-> FALSE, g |-> [key |-> 0, pos |-> 1]]
      ELSE pickle_loads(b.bs)

(*************************** expressions **********************************)
Integer(n) == [h |-> "Integer", v |-> n]
\* a machine real; v is its numerator over RealDen
Real(n) == [h |-> "Real", v |-> n]
Sym(i) == [h |-> "Symbol", v |-> i]
Str(i) == [h |-> "String", v |-> i]
Cplx(re, im) == [h |-> "Complex", re |-> re, im |-> im]
List(leaves) == [h |-> "List", leaves |-> leaves]
Null == [h |-> "Null", v |-> 0]

\* denominator of the fixed-point reals: two words make one double
RealDen == WordMod * WordMod

\* BaseExpression.is_numeric for the atoms used here
is_numeric(x) == x.h \in {"Integer", "Real"}

\* isinstance(x.to_python(), int)
is_int(x) == x.h = "Integer"

\* to_python of a numeric atom, as a numerator over RealDen
to_float(x) == IF x.h = "Integer" THEN x.v * RealDen ELSE x.v

\* hashlib.md5(s).hexdigest() as an integer, scaled to its leading 16 bits
Md5(i) == IF i = 1 THEN 43492 ELSE 54301

RECURSIVE Prod(_)
Prod(s) == IF s = <<>> THEN 1 ELSE s[1] * Prod(Tail(s))

\* the values of a list of Integer atoms
PyInts(ns) == [i \in 1 .. Len(ns) |-> ns[i].v]

(**************************** numpy.random *********************************)
\* what a call into numpy.random gives back: the state afterwards, the words
\* consumed, the exception raised ("" for none), and the array or scalar
Drawn(g, n, exc, shape, data) ==
  [g |-> g, draws |-> n, exc |-> exc, shape |-> shape, data |-> data]

\* numpy.random.seed(x) for an integer x
numpy_seed(g, x) ==
  IF x < 0 \/ x > SeedLimit - 1
  THEN Drawn(g, 0, "ValueError", <<>>, <<>>)
  ELSE Drawn(rk_seed(x), 0, "", <<>>, <<>>)

\* the exception numpy raises for a size it cannot allocate, "" for none
SizeError(ns) ==
  IF \E i \in 1 .. Len(ns) : ~is_int(ns[i]) THEN "TypeError"
  ELSE IF \E i \in 1 .. Len(ns) : ns[i].v < 0 THEN "ValueError"
  ELSE ""

\* numpy.random.random_integers(a, b, size): scalar when size is None
random_integers(g, a, b, scalar, ns) ==
  IF a > b THEN Drawn(g, 0, "ValueError", <<>>, <<>>)
  ELSE IF ~scalar /\ SizeError(ns) # "" THEN Drawn(g, 0, SizeError(ns), <<>>, <<>>)
  ELSE LET shape == IF scalar THEN <<>> ELSE PyInts(ns)
           n == Prod(shape)
           k == IF a = b THEN 0 ELSE n
           d == DrawWords[g, k]
           data == [i \in 1 .. n |-> IF a = b THEN a ELSE a + (d.ws[i] % (b - a + 1))]
       IN  Drawn(d.g, k, "", shape, data)

\* numpy.random.uniform(lo, hi, size): two words per value
uniform(g, lo, hi, scalar, ns) ==
  IF ~scalar /\ SizeError(ns) # "" THEN Drawn(g, 0, SizeError(ns), <<>>, <<>>)
  ELSE LET shape == IF scalar THEN <<>> ELSE PyInts(ns)
           n == Prod(shape)
           d == DrawWords[g, 2 * n]
           data == [i \in 1 .. n |->
                      lo + ((hi - lo) * (d.ws[2 * i - 1] * WordMod + d.ws[2 * i]))
                           \div RealDen]
       IN  Drawn(d.g, 2 * n, "", shape, data)

RECURSIVE Shuffle(_, _, _)
\* numpy.random.shuffle: for i = n-1 down to 1 swap x[i] and x[rk_interval(i)];
\* x is 1-indexed here, i counts as in the C loop
Shuffle(x, i, ws) ==
  IF i < 1 THEN x
  ELSE LET j == ws[1] % (i + 1)
           y == [x EXCEPT ![i + 1] = x[j + 1], ![j + 1] = x[i + 1]]
       IN  Shuffle(y, i - 1, Tail(ws))

\* numpy.random.choice(n, size, replace, p=None)
choice(g, n, ns, replace) ==
  IF n <= 0 THEN Drawn(g, 0, "ValueError", <<>>, <<>>)
  ELSE IF SizeError(ns) # "" THEN Drawn(g, 0, SizeError(ns), <<>>, <<>>)
  ELSE LET shape == PyInts(ns)
           size == Prod(shape)
       IN  IF replace
           THEN LET k == IF n = 1 THEN 0 ELSE size
                    d == DrawWords[g, k]
                    data == [i \in 1 .. size |-> IF n = 1 THEN 0 ELSE d.ws[i] % n]
                IN  Drawn(d.g, k, "", shape, data)
           ELSE IF size > n THEN Drawn(g, 0, "ValueError", <<>>, <<>>)
           ELSE LET d == DrawWords[g, n - 1]
                    perm == Shuffle([i \in 1 .. n |-> i - 1], n - 1, d.ws)
                IN  Drawn(d.g, n - 1, "", shape, SubSeq(perm, 1, size))

\* numpy.stack([re, im], axis=-1)
stack(re, im) ==
  [shape |-> re.shape \o <<2>>,
   data |-> [i \in 1 .. 2 * Len(re.data) |->
               IF i % 2 = 1 THEN re.data[(i + 1) \div 2] ELSE im.data[i \div 2]]]

(****************************** _from_numpy ********************************)
\* a[k]: the k-th (0-based) slice of a along its first axis
SubArr(a, k) ==
  LET stride == Prod(Tail(a.shape))
  IN  [shape |-> Tail(a.shape),
       data |-> SubSeq(a.data, k * stride + 1, (k + 1) * stride)]

\* new_element: Integer, Real, lambda c: Complex(*c), lambda i: elements[i]
new_element(ctor, x, elements) ==
  CASE ctor = "Integer" -> Integer(x.data[1])
    [] ctor = "Real" -> Real(x.data[1])
    [] ctor = "Complex" -> Cplx(x.data[1], x.data[2])
    [] OTHER -> elements[x.data[1] + 1]

RECURSIVE _from_numpy(_, _, _, _)
\* [ok |-> FALSE] stands for the IndexError of a.shape[0] on a 0-d array
_from_numpy(a, ctor, d, elements) ==
  IF Len(a.shape) = d
  THEN [ok |-> TRUE,
        expr |-> List([k \in 1 .. a.shape[1] |->
                         new_element(ctor, SubArr(a, k - 1), elements)])]
  ELSE IF Len(a.shape) = 0 THEN [ok |-> FALSE, expr |-> Null]
  ELSE LET subs == [k \in 1 .. a.shape[1] |->
                      _from_numpy(SubArr(a, k - 1), ctor, d, elements)]
       IN  IF \E k \in 1 .. a.shape[1] : ~subs[k].ok
           THEN [ok |-> FALSE, expr |-> Null]
           ELSE [ok |-> TRUE,
                 expr |-> List([k \in 1 .. a.shape[1] |-> subs[k].expr])]

(***************************** RandomEnv ***********************************)
\* an installer that ignores the persisted value and always reseeds
set_random_state_fresh(state, e) == [ok |-> TRUE, g |-> rk_seed(e)]

\* set_random_state(state); e is the seed numpy.random.seed() reads from the
\* OS when state is None
set_random_state(state, e) ==
  IF state = NoState THEN [ok |-> TRUE, g |-> rk_seed(e)] ELSE decode_state(state)

\* RandomEnv.__enter__: numpy's state after installing the persisted value
RandomEnv__enter__(e) == set_random_state(config, e)

\* an exit that persists only when the body finished normally
RandomEnv__exit__OnSuccess(g, exit_type, prior) ==
  IF exit_type = "" THEN get_random_state(g) ELSE prior

\* an exit that persists only into an empty slot
RandomEnv__exit__Once(g, exit_type, prior) ==
  IF prior = NoState THEN get_random_state(g) ELSE prior

\* RandomEnv.__exit__(exit_type, value, traceback): the value persisted into
\* $RandomState; exit_type is "" on the normal path, prior the slot's old value
RandomEnv__exit__(g, exit_type, prior) == get_random_state(g)

\* what the body of a with-block gives back
Body(g, draws, exc, value) == [g |-> g, draws |-> draws, exc |-> exc, value |-> value]

\* a call expression: head[dom, ns]; form is "scalar" when ns is absent
Call(head, dom, form, ns) == [head |-> head, dom |-> dom, form |-> form, ns |-> ns]

\* what one evaluation gives the evaluator: outcome is "value", "message" (the
\* builtin returned None after evaluation.message: the call stays unevaluated)
\* or "raise" (a Python exception left apply, its type in exc)
Res(call, outcome, exc, msgs, value, entered, draws, pre, cfg0) ==
  [call |-> call, outcome |-> outcome, exc |-> exc, msgs |-> msgs,
   value |-> value, entered |-> entered, draws |-> draws, pre |-> pre,
   cfg0 |-> cfg0]

NoCall == Call("", <<>>, "scalar", <<>>)
NoResult == Res(NoCall, "", "", <<>>, Null, FALSE, 0, [key |-> 0, pos |-> 1], NoState)

Msg(tag, args) == [tag |-> tag, args |-> args]

\* the seeds the OS can hand to a session entered with nothing persisted
Entropy == IF config = NoState THEN EntropySeeds ELSE {0}

\* a builtin that returns evaluation.message(...) before opening a session
Reject(call, msg) ==
  /\ pc = "idle"
  /\ pc' = "done"
  /\ result' = Res(call, "message", "", <<msg>>, Null, FALSE, 0, gen, config)
  /\ UNCHANGED <<gen, config, hist, cur, ref>>

\* an exception that leaves apply before any session is opened
Throw(call, exc, msgs) ==
  /\ pc = "idle"
  /\ pc' = "done"
  /\ result' = Res(call, "raise", exc, msgs, Null, FALSE, 0, gen, config)
  /\ UNCHANGED <<gen, config, hist, cur, ref>>

\* with RandomEnv(evaluation) as rand: <body>
\* ent is what __enter__ installed, b the body run on the installed state
WithRandomEnv(call, ent, b) ==
  /\ pc = "idle"
  /\ pc' = "done"
  /\ UNCHANGED <<hist, cur, ref>>
  /\ IF ~ent.ok
     THEN /\ result' = Res(call, "raise", "EnterError", <<>>, Null, FALSE, 0,
                           gen, config)
          /\ UNCHANGED <<gen, config>>
     ELSE \E r \in {b} :
              /\ gen' = r.g
              /\ config' = RandomEnv__exit__(r.g, r.exc, config)
              /\ result' = Res(call, IF r.exc = "" THEN "value" ELSE "raise",
                               r.exc, <<>>, r.value, TRUE, r.draws, ent.g,
                               config)

(***************************** $RandomState ********************************)
\* RandomState.apply
RandomState_apply ==
  \E e \in Entropy : \E ent \in {RandomEnv__enter__(e)} :
    WithRandomEnv(Call("$RandomState", <<>>, "scalar", <<>>), ent,
                  Body(ent.g, 0, "", Integer(get_random_state(ent.g))))

\* $RandomState = rhs: the 'rndst' message, the value of the right-hand side,
\* nothing stored
RandomState_assign(rhs) ==
  /\ pc = "idle"
  /\ pc' = "done"
  /\ result' = Res(Call("Set", <<rhs>>, "scalar", <<>>), "value", "",
                   <<Msg("rndst", <<>>)>>, rhs, FALSE, 0, gen, config)
  /\ UNCHANGED <<gen, config, hist, cur, ref>>

(****************************** SeedRandom *********************************)
\* the body rand.seed(value)
SeedBody(g, value) ==
  LET r == numpy_seed(g, value) IN Body(r.g, 0, r.exc, Null)

\* SeedRandom.apply
SeedRandom_apply(x) ==
  LET call == Call("SeedRandom", <<x>>, "scalar", <<>>)
  IN  IF x.h = "Integer"
      THEN \E e \in Entropy : \E ent \in {RandomEnv__enter__(e)} :
             WithRandomEnv(call, ent, SeedBody(ent.g, x.v))
      ELSE IF x.h = "String"
      THEN \E e \in Entropy : \E ent \in {RandomEnv__enter__(e)} :
             WithRandomEnv(call, ent, SeedBody(ent.g, Md5(x.v)))
      ELSE Reject(call, Msg("seed", <<x>>))

\* SeedRandom.apply_empty
SeedRandom_apply_empty ==
  \E e \in Entropy, s \in EntropySeeds : \E ent \in {RandomEnv__enter__(e)} :
    WithRandomEnv(Call("SeedRandom", <<>>, "scalar", <<>>), ent,
                  Body(rk_seed(s), 0, "", Null))

(***************************** RandomInteger *******************************)
\* the body Integer(rand.randint(rmin, rmax))
IntegerBody(g, a, b) ==
  LET r == random_integers(g, a, b, TRUE, <<>>)
  IN  IF r.exc # "" THEN Body(r.g, r.draws, r.exc, Null)
      ELSE Body(r.g, r.draws, "", Integer(r.data[1]))

\* the body _from_numpy(rand.randint(rmin, rmax, result), Integer)
IntegerListBody(g, a, b, ns) ==
  LET r == random_integers(g, a, b, FALSE, ns)
      f == _from_numpy([shape |-> r.shape, data |-> r.data], "Integer", 1, <<>>)
  IN  IF r.exc # "" THEN Body(r.g, r.draws, r.exc, Null)
      ELSE IF ~f.ok THEN Body(r.g, r.draws, "IndexError", Null)
      ELSE Body(r.g, r.draws, "", f.expr)

\* RandomInteger.apply
RandomInteger_apply(rmin, rmax) ==
  LET call == Call("RandomInteger", <<rmin, rmax>>, "scalar", <<>>)
  IN  IF ~is_int(rmin) \/ ~is_int(rmax)
      THEN Reject(call, Msg("unifr", <<List(<<rmin, rmax>>)>>))
      ELSE \E e \in Entropy : \E ent \in {RandomEnv__enter__(e)} :
             WithRandomEnv(call, ent, IntegerBody(ent.g, rmin.v, rmax.v))

\* RandomInteger.apply_list
RandomInteger_apply_list(rmin, rmax, ns) ==
  LET call == Call("RandomInteger", <<rmin, rmax>>, "list", ns)
  IN  IF ~is_int(rmin) \/ ~is_int(rmax)
      THEN Reject(call, Msg("unifr", <<List(<<rmin, rmax>>)>>))
      ELSE \E e \in Entropy : \E ent \in {RandomEnv__enter__(e)} :
             WithRandomEnv(call, ent, IntegerListBody(ent.g, rmin.v, rmax.v, ns))

(****************************** RandomReal *********************************)
\* all(isinstance(i, int) and i >= 0 for i in result)
ValidSize(ns) == \A i \in 1 .. Len(ns) : is_int(ns[i]) /\ ns[i].v >= 0

\* the body Real(rand.randreal(min_value, max_value))
RealBody(g, lo, hi) ==
  LET r == uniform(g, lo, hi, TRUE, <<>>)
  IN  Body(r.g, r.draws, "", Real(r.data[1]))

\* the body _from_numpy(rand.randreal(min_value, max_value, result), Real)
RealListBody(g, lo, hi, ns) ==
  LET r == uniform(g, lo, hi, FALSE, ns)
      f == _from_numpy([shape |-> r.shape, data |-> r.data], "Real", 1, <<>>)
  IN  IF r.exc # "" THEN Body(r.g, r.draws, r.exc, Null)
      ELSE IF ~f.ok THEN Body(r.g, r.draws, "IndexError", Null)
      ELSE Body(r.g, r.draws, "", f.expr)

\* RandomReal.apply
RandomReal_apply(xmin, xmax) ==
  LET call == Call("RandomReal", <<xmin, xmax>>, "scalar", <<>>)
  IN  IF ~(is_numeric(xmin) /\ is_numeric(xmax))
      THEN Reject(call, Msg("unifr", <<List(<<xmin, xmax>>)>>))
      ELSE \E e \in Entropy : \E ent \in {RandomEnv__enter__(e)} :
             WithRandomEnv(call, ent,
                           RealBody(ent.g, to_float(xmin), to_float(xmax)))

\* RandomReal.apply_list
RandomReal_apply_list(xmin, xmax, ns) ==
  LET call == Call("RandomReal", <<xmin, xmax>>, "list", ns)
  IN  IF ~(is_numeric(xmin) /\ is_numeric(xmax))
      THEN Reject(call, Msg("unifr", <<List(<<xmin, xmax>>)>>))
      ELSE IF ~ValidSize(ns)
      THEN Reject(call, Msg("array", <<call, ns>>))
      ELSE \E e \in Entropy : \E ent \in {RandomEnv__enter__(e)} :
             WithRandomEnv(call, ent,
                           RealListBody(ent.g, to_float(xmin), to_float(xmax), ns))

(***************************** RandomComplex *******************************)
\* if RealNumberQ[z]: z = Complex(z, 0.0)
Promote(z) == IF is_numeric(z) THEN Cplx(to_float(z), 0) ELSE z

\* the body Complex(rand.randreal(re, re'), rand.randreal(im, im'))
ComplexBody(g, lo, hi) ==
  LET re == uniform(g, lo.re, hi.re, TRUE, <<>>)
      im == uniform(re.g, lo.im, hi.im, TRUE, <<>>)
  IN  Body(im.g, re.draws + im.draws, "", Cplx(re.data[1], im.data[1]))

\* the body of RandomComplex.apply_list: real, imag, numpy.stack, _from_numpy
ComplexListBody(g, lo, hi, py_ns) ==
  LET re == uniform(g, lo.re, hi.re, FALSE, py_ns)
      im == uniform(re.g, lo.im, hi.im, FALSE, py_ns)
      f == _from_numpy(stack(re, im), "Complex", 2, <<>>)
  IN  IF re.exc # "" THEN Body(re.g, re.draws, re.exc, Null)
      ELSE IF ~f.ok THEN Body(im.g, re.draws + im.draws, "IndexError", Null)
      ELSE Body(im.g, re.draws + im.draws, "", f.expr)

\* RandomComplex.apply
RandomComplex_apply(zmin, zmax) ==
  LET call == Call("RandomComplex", <<zmin, zmax>>, "scalar", <<>>)
      lo == Promote(zmin)
      hi == Promote(zmax)
  IN  IF ~(lo.h = "Complex" /\ hi.h = "Complex")
      THEN Reject(call, Msg("unifr", <<List(<<lo, hi>>)>>))
      ELSE \E e \in Entropy : \E ent \in {RandomEnv__enter__(e)} :
             WithRandomEnv(call, ent, ComplexBody(ent.g, lo, hi))

\* RandomComplex.apply_list; form "bare" is an ns that is no list: py_ns = [py_ns]
RandomComplex_apply_list(zmin, zmax, form, ns) ==
  LET call == Call("RandomComplex", <<zmin, zmax>>, form, ns)
      lo == Promote(zmin)
      hi == Promote(zmax)
  IN  IF ~(lo.h = "Complex" /\ hi.h = "Complex")
      THEN Reject(call, Msg("unifr", <<List(<<lo, hi>>)>>))
      ELSE IF ~ValidSize(ns)
      THEN Reject(call, Msg("array", <<ns, call>>))
      ELSE \E e \in Entropy : \E ent \in {RandomEnv__enter__(e)} :
             WithRandomEnv(call, ent, ComplexListBody(ent.g, lo, hi, ns))

(************************ RandomChoice, RandomSample ***********************)
\* a domain: elements, or weights -> elements, or anything else
Domain(h, weights, elements) == [h |-> h, weights |-> weights, elements |-> elements]

\* _RandomSelection._weights_to_python: the pair (err, py_weights); msgs are
\* the messages it emitted, ok is py_weights is not None
_weights_to_python(weights, expr) ==
  IF ~\A i \in 1 .. Len(weights) : is_numeric(weights[i])
  THEN [msgs |-> <<Msg("weights", <<weights, expr>>)>>, ok |-> FALSE, py |-> <<>>]
  ELSE IF ~\A i \in 1 .. Len(weights) : weights[i].v >= 0
  THEN [msgs |-> <<Msg("weights", <<weights, expr>>)>>, ok |-> FALSE, py |-> <<>>]
  ELSE [msgs |-> <<>>, ok |-> TRUE, py |-> [i \in 1 .. Len(weights) |-> to_float(weights[i])]]

\* weights /= numpy.sum(weights), where weights is the pair above: numpy.sum
\* of (err, py_weights) and the in-place division of a tuple both raise
Normalize(pair) == [ok |-> FALSE, exc |-> "TypeError", w |-> <<>>]

\* _RandomBase._size_to_python: the message, or py_size
_size_to_python(call, size) ==
  IF ~\A i \in 1 .. Len(size) : is_numeric(size[i])
  THEN [ok |-> FALSE, msg |-> Msg("array", <<size, call>>)]
  ELSE IF ~\A i \in 1 .. Len(size) : is_int(size[i]) /\ size[i].v >= 0
  THEN [ok |-> FALSE, msg |-> Msg("array", <<size, call>>)]
  ELSE [ok |-> TRUE, msg |-> Msg("", <<>>)]

\* the body _from_numpy(rand.randchoice(len(elements), size, replace, p), ...)
SelectionBody(g, elements, size, replace) ==
  LET r == choice(g, Len(elements), size, replace)
      f == _from_numpy([shape |-> r.shape, data |-> r.data], "Element", 1, elements)
  IN  IF r.exc # "" THEN Body(r.g, r.draws, r.exc, Null)
      ELSE IF ~f.ok THEN Body(r.g, r.draws, "IndexError", Null)
      ELSE Body(r.g, r.draws, "", f.expr)

\* _RandomSelection.apply from the call of _size_to_python on
Select(call, elements, size, replace) ==
  LET sz == _size_to_python(call, size)
  IN  IF ~sz.ok THEN Reject(call, sz.msg)
      ELSE \E e \in Entropy : \E ent \in {RandomEnv__enter__(e)} :
             WithRandomEnv(call, ent, SelectionBody(ent.g, elements, size, replace))

\* _RandomSelection.apply; name is RandomChoice (_replace) or RandomSample
_RandomSelection_apply(name, domain, size) ==
  LET call == Call(name, domain, "list", size)
      replace == (name = "RandomChoice")
  IN  IF domain.h = "Rule"
      THEN LET pair == _weights_to_python(domain.weights, call)
               norm == Normalize(pair)
           IN  IF ~norm.ok THEN Throw(call, norm.exc, pair.msgs)
               ELSE IF Len(norm.w) # Len(domain.elements)
               THEN Reject(call, Msg("lengths", <<domain>>))
               ELSE Select(call, domain.elements, size, replace)
      ELSE IF domain.h = "List"
      THEN Select(call, domain.elements, size, replace)
      ELSE Reject(call, Msg("list", <<>>))

(******************************* inputs ************************************)
\* one half, as a machine real
Half == Real(RealDen \div 2)

\* the entries a shape specification is built from: -1 .. MaxDim, 3/2, a symbol
DimAtoms == {Integer(d) : d \in -1 .. MaxDim} \cup {Real(RealDen + RealDen \div 2), Sym(0)}

SeqsUpTo(S, n) == UNION {[1 .. k -> S] : k \in 0 .. n}

Shapes == SeqsUpTo(DimAtoms, MaxRank)

\* integer seeds below, inside and above numpy's range, two strings, a symbol
Seeds == {Integer(-1), Integer(0), Integer(3), Integer(SeedLimit - 1),
          Integer(SeedLimit), Str(1), Str(2), Sym(0)}

IntegerRanges == {<<Integer(0), Integer(1)>>, <<Integer(1), Integer(1)>>,
                  <<Integer(1), Integer(0)>>, <<Integer(0), Half>>}

RealRanges == {<<Integer(0), Integer(1)>>, <<Half, Half>>, <<Integer(0), Sym(0)>>}

ComplexRanges == {<<Integer(0), Cplx(RealDen, RealDen)>>,
                  <<Cplx(RealDen, RealDen), Cplx(2 * RealDen, 2 * RealDen)>>,
                  <<Integer(0), Sym(0)>>}

Elements == <<Sym(1), Sym(2)>>

Domains == {Domain("List", <<>>, Elements),
            Domain("Rule", <<Integer(1), Integer(1)>>, Elements),
            Domain("Rule", <<Integer(1), Integer(-1)>>, Elements),
            Domain("Rule", <<Integer(1), Sym(0)>>, Elements),
            Domain("Rule", <<Integer(1)>>, Elements),
            Domain("Symbol", <<>>, <<>>)}

Selections == {"RandomChoice", "RandomSample"}

\* right-hand sides of an assignment to $RandomState: 42, or its own value
Assigned == {Integer(42)} \cup (IF config = NoState THEN {} ELSE {Integer(config)})

(************************* the evaluator's loop ****************************)
\* one evaluation of a builtin with inputs from the given sets
Evaluate(seeds, shapes) ==
  \/ pc = "idle" /\ RandomState_apply
  \/ pc = "idle" /\ \E rhs \in Assigned : RandomState_assign(rhs)
  \/ pc = "idle" /\ \E x \in seeds : SeedRandom_apply(x)
  \/ pc = "idle" /\ SeedRandom_apply_empty
  \/ pc = "idle" /\ \E r \in IntegerRanges : RandomInteger_apply(r[1], r[2])
  \/ pc = "idle" /\ \E r \in IntegerRanges, ns \in shapes :
                      RandomInteger_apply_list(r[1], r[2], ns)
  \/ pc = "idle" /\ \E r \in RealRanges : RandomReal_apply(r[1], r[2])
  \/ pc = "idle" /\ \E r \in RealRanges, ns \in shapes :
                      RandomReal_apply_list(r[1], r[2], ns)
  \/ pc = "idle" /\ \E r \in ComplexRanges : RandomComplex_apply(r[1], r[2])
  \/ pc = "idle" /\ \E r \in ComplexRanges, ns \in shapes :
                      \E form \in (IF Len(ns) = 1 THEN {"list", "bare"} ELSE {"list"}) :
                        RandomComplex_apply_list(r[1], r[2], form, ns)
  \/ pc = "idle" /\ \E name \in Selections, d \in Domains, ns \in shapes :
                      _RandomSelection_apply(name, d, ns)

\* the result is delivered and the next input is read
Return ==
  /\ pc = "done"
  /\ pc' = "idle"
  /\ result' = NoResult
  /\ UNCHANGED <<gen, config, hist, cur, ref>>

NoHist == [mid |-> "none", r1 |-> NoState]
NoRun == [seed |-> Null, calls |-> <<>>, outs |-> <<>>]

\* numpy seeds its global generator from the OS at import; nothing persisted
Init ==
  /\ gen \in {rk_seed(e) : e \in EntropySeeds}
  /\ config = NoState
  /\ pc = "idle"
  /\ result = NoResult
  /\ hist = NoHist
  /\ cur = NoRun
  /\ ref = NoRun

Next == Evaluate(Seeds, Shapes) \/ Return

Spec == Init /\ [][Next]_vars

(*********************** observing $RandomState ****************************)
SamplingHeads == {"RandomInteger", "RandomReal", "RandomComplex",
                  "RandomChoice", "RandomSample"}

IsRead(r) == r.call.head = "$RandomState" /\ r.outcome = "value"

\* what the call that just ended was: a read of $RandomState, an assignment
\* to it, a sampling call that drew at least one word, or anything else
Kind(r) ==
  IF IsRead(r) THEN "read"
  ELSE IF r.call.head = "Set" THEN "assign"
  ELSE IF r.call.head \in SamplingHeads /\ r.draws >= 1 THEN "sample"
  ELSE "other"

\* Return, remembering the last call and the value read just before it
ReturnObs ==
  /\ pc = "done"
  /\ pc' = "idle"
  /\ result' = NoResult
  /\ hist' = [mid |-> Kind(result),
              r1 |-> IF IsRead(result) THEN result.value.v
                     ELSE IF Kind(result) \in {"assign", "sample"} /\ hist.mid = "read"
                     THEN hist.r1
                     ELSE NoState]
  /\ UNCHANGED <<gen, config, cur, ref>>

\* shape specifications of at most one dimension
ObsShapes == SeqsUpTo(DimAtoms, 1)

NextObs == Evaluate(Seeds, ObsShapes) \/ ReturnObs

SpecObs == Init /\ [][NextObs]_vars

(************************* runs after SeedRandom ***************************)
\* what the evaluator shows for a call
Shown(r) == [outcome |-> r.outcome, exc |-> r.exc, value |-> r.value]

IsSeeding(r) ==
  /\ r.call.head = "SeedRandom"
  /\ Len(r.call.dom) = 1
  /\ r.call.dom[1].h \in {"Integer", "String"}

\* Return, recording the sampling calls made since the last SeedRandom[v] in
\* cur, and keeping one ended run in ref
ReturnDet ==
  /\ pc = "done"
  /\ pc' = "idle"
  /\ result' = NoResult
  /\ IF result.call.head \in SamplingHeads /\ cur.seed # Null
        /\ Len(cur.calls) < MaxRun
     THEN /\ cur' = [cur EXCEPT !.calls = Append(@, result.call),
                                !.outs = Append(@, Shown(result))]
          /\ ref' = ref
     ELSE /\ cur' = IF IsSeeding(result)
                    THEN [seed |-> result.call.dom[1], calls |-> <<>>, outs |-> <<>>]
                    ELSE NoRun
          /\ ref' \in {ref} \cup (IF ref = NoRun /\ cur.calls # <<>> THEN {cur} ELSE {})
  /\ UNCHANGED <<gen, config, hist>>

DetSeeds == {Integer(-1), Integer(3)}

NextDet ==
  \/ pc = "idle" /\ \E x \in DetSeeds : SeedRandom_apply(x)
  \/ pc = "idle" /\ SeedRandom_apply_empty
  \/ pc = "idle" /\ RandomInteger_apply(Integer(0), Integer(1))
  \/ pc = "idle" /\ RandomReal_apply(Integer(0), Integer(1))
  \/ ReturnDet

SpecDet == Init /\ [][NextDet]_vars

(******************************* properties ********************************)
Done == pc = "done"

IsSampling(r) == r.call.head \in SamplingHeads

\* a shape specification with a negative or non-integral entry
InvalidShape(ns) == \E i \in 1 .. Len(ns) : ~is_int(ns[i]) \/ ns[i].v < 0

ValidWeights(d) ==
  /\ \A i \in 1 .. Len(d.weights) : is_numeric(d.weights[i]) /\ d.weights[i].v >= 0
  /\ Len(d.weights) = Len(d.elements)

\* the first argument of a sampling call is one the operation accepts
ValidDomain(c) ==
  CASE c.head = "RandomInteger" ->
         is_int(c.dom[1]) /\ is_int(c.dom[2]) /\ c.dom[1].v <= c.dom[2].v
    [] c.head = "RandomReal" -> is_numeric(c.dom[1]) /\ is_numeric(c.dom[2])
    [] c.head = "RandomComplex" ->
         Promote(c.dom[1]).h = "Complex" /\ Promote(c.dom[2]).h = "Complex"
    [] OTHER -> c.dom.h = "List" \/ (c.dom.h = "Rule" /\ ValidWeights(c.dom))

\* the call was turned down with one message of the given tags and nothing else
\* happened: no session, no draw, no exception, no value
Diagnosed(r, tags) ==
  /\ r.outcome = "message"
  /\ Len(r.msgs) = 1
  /\ r.msgs[1].tag \in tags
  /\ ~r.entered
  /\ r.draws = 0
  /\ gen = r.pre
  /\ config = r.cfg0

\* the type of the leaves a sampling operation produces
LeafHeads(c) ==
  CASE c.head = "RandomInteger" -> {"Integer"}
    [] c.head = "RandomReal" -> {"Real"}
    [] c.head = "RandomComplex" -> {"Complex"}
    [] OTHER -> {"Symbol"}

RECURSIVE WellShaped(_, _, _)
\* e is a nested list with shape[i] entries at level i and leaves below
WellShaped(e, shape, heads) ==
  /\ e.h = "List"
  /\ Len(e.leaves) = shape[1]
  /\ \A i \in 1 .. Len(e.leaves) :
       IF Len(shape) = 1 THEN e.leaves[i].h \in heads
       ELSE WellShaped(e.leaves[i], Tail(shape), heads)

\* C1: installing the integer that get_random_state() produces for a generator
\* state through set_random_state() restores exactly that state
RoundTrip == set_random_state(get_random_state(gen), 0) = [ok |-> TRUE, g |-> gen]

\* a state reached by a session that was entered on a persisted value and drew
RoundTripWitness ==
  /\ Done /\ IsSampling(result) /\ result.outcome = "value"
  /\ result.cfg0 # NoState
  /\ result.draws > 0
  /\ decode_state(config).g = gen

\* C2: whenever a session was entered, the persisted $RandomState afterwards is
\* the encoding of the generator state at exit, every draw of a sampling body
\* included, whether the body returned or raised
ExitPersists ==
  (Done /\ result.entered) =>
     /\ config = get_random_state(gen)
     /\ IsSampling(result) => gen = DrawWords[result.pre, result.draws].g

\* a body that drew and then raised, and the slot was overwritten
ExitPersistsWitness ==
  /\ Done /\ result.entered
  /\ result.outcome = "raise"
  /\ result.draws > 0
  /\ config # result.cfg0
  /\ config = get_random_state(gen)

\* C3: two runs that start with SeedRandom[v] for the same integer or string v
\* and make the same sampling calls show the same results
SeedDeterminism ==
  \A i \in 1 .. MaxRun :
    (/\ cur.seed # Null
     /\ cur.seed = ref.seed
     /\ i <= Len(cur.calls)
     /\ i <= Len(ref.calls)
     /\ SubSeq(cur.calls, 1, i) = SubSeq(ref.calls, 1, i))
    => cur.outs[i] = ref.outs[i]

\* C4: an assignment to $RandomState gives back its right-hand side with the
\* 'rndst' message and stores nothing: a read after it returns what the read
\* before it returned
AssignIsInert ==
  /\ (Done /\ result.call.head = "Set") =>
        /\ result.outcome = "value"
        /\ result.value = result.call.dom[1]
        /\ result.msgs = <<Msg("rndst", <<>>)>>
        /\ config = result.cfg0
        /\ gen = result.pre
  /\ (Done /\ IsRead(result) /\ hist.mid = "assign" /\ hist.r1 # NoState) =>
        result.value.v = hist.r1

\* a read, an assignment, and a second read that has returned
AssignIsInertWitness ==
  /\ Done /\ IsRead(result)
  /\ hist.mid = "assign"
  /\ hist.r1 # NoState
  /\ result.value.v = hist.r1

\* C5: every sampling operation given a shape with a negative or non-integral
\* entry answers with the 'array' message naming the shape and the call, and
\* neither opens a session, draws, nor raises
ShapeRejected ==
  (/\ Done /\ IsSampling(result)
   /\ result.call.form # "scalar"
   /\ ValidDomain(result.call)
   /\ InvalidShape(result.call.ns))
  => /\ Diagnosed(result, {"array"})
     /\ {result.msgs[1].args[i] : i \in 1 .. Len(result.msgs[1].args)}
          = {result.call, result.call.ns}

\* C6: a weighted RandomChoice or RandomSample whose weights are not all
\* non-negative numbers, or whose weights and elements differ in number,
\* answers with the 'weights' or 'lengths' message without raising or drawing
WeightsRejected ==
  (/\ Done /\ result.call.head \in Selections
   /\ result.call.dom.h = "Rule"
   /\ ~ValidWeights(result.call.dom))
  => Diagnosed(result, {"weights", "lengths"})

\* C7: RandomSample asked for more items than there are elements fails with a
\* diagnostic that names the call and leaves it unevaluated; RandomChoice with
\* the same arguments returns a value
SampleTooMany ==
  (/\ Done /\ result.call.head \in Selections
   /\ result.call.dom.h = "List"
   /\ ValidSize(result.call.ns)
   /\ Prod(PyInts(result.call.ns)) > Len(result.call.dom.elements))
  => IF result.call.head = "RandomSample"
     THEN /\ result.outcome = "message"
          /\ \E i \in 1 .. Len(result.msgs) :
               \E j \in 1 .. Len(result.msgs[i].args) :
                 result.msgs[i].args[j] = result.call
     ELSE result.outcome = "value"

\* C8: SeedRandom[n] for any integer n, negative or beyond the generator's
\* seed range included, returns Null without raising, and the persisted state
\* is the one seeded from n
SeedAnyInteger ==
  (/\ Done /\ result.call.head = "SeedRandom"
   /\ Len(result.call.dom) = 1
   /\ is_int(result.call.dom[1]))
  => /\ result.outcome = "value"
     /\ result.value = Null
     /\ \E s \in 0 .. SeedLimit - 1 : gen = rk_seed(s)
     /\ config = get_random_state(gen)

\* C9: a sampling operation given a valid shape n1, ..., nk returns a nested
\* list with ni entries at level i, zero-length dimensions giving empty lists
NestedResult ==
  (/\ Done /\ IsSampling(result)
   /\ result.call.form # "scalar"
   /\ ValidDomain(result.call)
   /\ Len(result.call.ns) >= 1
   /\ ValidSize(result.call.ns)
   /\ ~(/\ result.call.head = "RandomSample"
        /\ Prod(PyInts(result.call.ns)) > Len(result.call.dom.elements)))
  => /\ result.outcome = "value"
     /\ WellShaped(result.value, PyInts(result.call.ns), LeafHeads(result.call))

\* C10: a read of $RandomState after a sampling call that drew differs from the
\* read before that call; a read returns the persisted value and leaves a
\* value already persisted as it was
ReadsSeeDraws ==
  /\ (Done /\ IsRead(result) /\ hist.mid = "sample" /\ hist.r1 # NoState) =>
        result.value.v # hist.r1
  /\ (Done /\ IsRead(result)) =>
        /\ config = result.value.v
        /\ result.cfg0 # NoState => config = result.cfg0

\* a read, a sampling call that drew, and a second read that has returned
ReadsSeeDrawsWitness ==
  /\ Done /\ IsRead(result)
  /\ hist.mid = "sample"
  /\ hist.r1 # NoState
  /\ result.value.v # hist.r1
  /\ config = result.cfg0

====
